---- MODULE Spec2Model ----
(***************************************************************************)
(* TailorTalk appointment-booking assistant: the Streamlit chat loop and   *)
(* LangGraph pipeline of src/app.py and the calendar backend of            *)
(* src/backend.py (src/tailortalk-backend/api.py has the same handlers).   *)
(*                                                                         *)
(* Text is a sequence of one-character strings, so that Python's           *)
(* substring tests ("hi" in message, str(i) in message) and regular        *)
(* expressions are computed character by character.                        *)
(* Instants are counted in quarter hours since 2025-06-01T00:00 UTC.       *)
(***************************************************************************)
EXTENDS Integers, Sequences, FiniteSets, TLC

VARIABLES session, pc, state, now, calls, trace, exc, scanned, prevSlots, fin, fout

vars == <<session, pc, state, now, calls, trace, exc, scanned, prevSlots, fin, fout>>

(***************************************************************************)
(* Text primitives                                                         *)
(***************************************************************************)
Digits == {"0", "1", "2", "3", "4", "5", "6", "7", "8", "9"}

Spaces == {" ", "\n"}

DigitVal(c) ==
  CASE c = "0" -> 0 [] c = "1" -> 1 [] c = "2" -> 2 [] c = "3" -> 3
    [] c = "4" -> 4 [] c = "5" -> 5 [] c = "6" -> 6 [] c = "7" -> 7
    [] c = "8" -> 8 [] c = "9" -> 9

DigitChar(n) ==
  CASE n = 0 -> "0" [] n = 1 -> "1" [] n = 2 -> "2" [] n = 3 -> "3"
    [] n = 4 -> "4" [] n = 5 -> "5" [] n = 6 -> "6" [] n = 7 -> "7"
    [] n = 8 -> "8" [] n = 9 -> "9"

\* s[i..] starts with sub
StartsAt(s, i, sub) ==
  /\ i >= 1
  /\ i + Len(sub) - 1 <= Len(s)
  /\ \A j \in 1..Len(sub) : s[i + j - 1] = sub[j]

\* Python: sub in s
Contains(s, sub) == \E i \in 1..(Len(s) + 1) : StartsAt(s, i, sub)

IsDigitAt(s, i) == i >= 1 /\ i <= Len(s) /\ s[i] \in Digits

\* Python: str(n) for n >= 0
RECURSIVE Str(_)
Str(n) == IF n < 10 THEN <<DigitChar(n)>> ELSE Str(n \div 10) \o <<DigitChar(n % 10)>>

\* strftime two-digit fields (%d, %I, %M)
Str2(n) == <<DigitChar((n \div 10) % 10), DigitChar(n % 10)>>

\* Python: int(text) for a run of digits s[i..j]
RECURSIVE IntOf(_, _, _)
IntOf(s, i, j) == IF j < i THEN 0 ELSE 10 * IntOf(s, i, j - 1) + DigitVal(s[j])

RECURSIVE SkipSpaces(_, _)
SkipSpaces(s, i) == IF i <= Len(s) /\ s[i] \in Spaces THEN SkipSpaces(s, i + 1) ELSE i

\* Python: sep.join(parts)
RECURSIVE Join(_, _)
Join(parts, sep) ==
  IF Len(parts) = 0 THEN <<>>
  ELSE IF Len(parts) = 1 THEN parts[1]
  ELSE parts[1] \o sep \o Join(Tail(parts), sep)

\* Python: seq[:n]
Take(seq, n) == SubSeq(seq, 1, IF Len(seq) < n THEN Len(seq) ELSE n)

UpperCase ==
  << "A", "B", "C", "D", "E", "F", "G", "H", "I", "J", "K", "L", "M",
     "N", "O", "P", "Q", "R", "S", "T", "U", "V", "W", "X", "Y", "Z" >>

LowerCase ==
  << "a", "b", "c", "d", "e", "f", "g", "h", "i", "j", "k", "l", "m",
     "n", "o", "p", "q", "r", "s", "t", "u", "v", "w", "x", "y", "z" >>

LowerChar(c) ==
  IF \E k \in 1..26 : UpperCase[k] = c
    THEN LowerCase[CHOOSE k \in 1..26 : UpperCase[k] = c]
    ELSE c

\* str.lower()
Lower(s) == [i \in 1..Len(s) |-> LowerChar(s[i])]

(***************************************************************************)
(* Time: quarter hours since 2025-06-01T00:00 UTC                          *)
(***************************************************************************)
QuartersPerHour == 4

QuartersPerDay == 96

\* timedelta(minutes=30)
SlotLen == 2

\* pytz.timezone("Asia/Kolkata"): UTC+05:30
IstOffset == 22

BusinessOpen == 9

BusinessClose == 18

\* datetime.astimezone(tz).hour / .minute (minute in quarter hours) / .date()
LocalHour(t, off) == ((t + off) % QuartersPerDay) \div QuartersPerHour

LocalQuarter(t, off) == (t + off) % QuartersPerHour

LocalDay(t, off) == (t + off) \div QuartersPerDay

IstHour(t) == LocalHour(t, IstOffset)

(***************************************************************************)
(* backend: GET /availability                                              *)
(***************************************************************************)
\* the overlap test of the slot loop (an all-day event has no 'dateTime')
OverlapsMutant(busy, cur, slotEnd) == busy.start < slotEnd /\ busy.end > slotEnd

Overlaps(busy, cur, slotEnd) == busy.start < slotEnd /\ busy.end > cur

InBusinessHours(t) == BusinessOpen <= IstHour(t) /\ IstHour(t) < BusinessClose

\* any(... for slot in busy_slots): "true", "false", or "raise" when
\* slot['start'] is None (None.replace raises AttributeError)
RECURSIVE AnyOverlap(_, _, _, _)
AnyOverlap(busy, k, cur, slotEnd) ==
  IF k > Len(busy) THEN "false"
  ELSE IF busy[k].allDay THEN "raise"
  ELSE IF Overlaps(busy[k], cur, slotEnd) THEN "true"
  ELSE AnyOverlap(busy, k + 1, cur, slotEnd)

\* the values current_time takes in the while loop: start, start + 30min,
\* ... while current_time < end_time
SlotStarts(start, end) ==
  [k \in 1..((end - start + SlotLen - 1) \div SlotLen) |-> start + (k - 1) * SlotLen]

\* the while loop: available_slots, or raised when an iteration raises
GenSlots(start, end, busy) ==
  LET starts == SlotStarts(start, end)
      any(cur) == IF InBusinessHours(cur) THEN AnyOverlap(busy, 1, cur, cur + SlotLen) ELSE "skip"
  IN IF \E k \in 1..Len(starts) : any(starts[k]) = "raise"
       THEN [raised |-> TRUE, slots |-> <<>>]
       ELSE [raised |-> FALSE, slots |-> SelectSeq(starts, LAMBDA cur : any(cur) = "false")]

\* req: [wellFormed, start, end]; svc: the calendar's answer to
\* events().list, [ok, busy]
get_availability(req, svc) ==
  IF ~ req.wellFormed
    THEN [status |-> 400, detail |-> "Invalid datetime format", listed |-> FALSE]
  ELSE IF req.start >= req.end
    THEN [status |-> 400, detail |-> "start_time must be before end_time", listed |-> FALSE]
  ELSE IF ~ svc.ok
    THEN [status |-> 500, detail |-> "Error fetching availability", listed |-> TRUE]
  ELSE LET gen == GenSlots(req.start, req.end, svc.busy)
       IN IF gen.raised
            THEN [status |-> 500, detail |-> "Error fetching availability", listed |-> TRUE]
            ELSE [status |-> 200, available_slots |-> gen.slots, listed |-> TRUE]

(***************************************************************************)
(* app: parse_user_date                                                    *)
(***************************************************************************)
\* datetime.date ordinals (proleptic Gregorian calendar)
IsLeap(y) == (y % 4 = 0) /\ ((y % 100 # 0) \/ (y % 400 = 0))

DaysInMonth(y, m) ==
  IF m = 2 THEN (IF IsLeap(y) THEN 29 ELSE 28)
  ELSE IF m \in {4, 6, 9, 11} THEN 30 ELSE 31

RECURSIVE DaysBeforeMonth(_, _)
DaysBeforeMonth(y, m) == IF m = 1 THEN 0 ELSE DaysBeforeMonth(y, m - 1) + DaysInMonth(y, m - 1)

DaysBeforeYear(y) ==
  (y - 1) * 365 + ((y - 1) \div 4) - ((y - 1) \div 100) + ((y - 1) \div 400)

Ordinal(y, m, d) == DaysBeforeYear(y) + DaysBeforeMonth(y, m) + d

\* day 0 of the model is 2025-06-01, a Sunday (date.weekday() = 6)
EpochOrdinal == Ordinal(2025, 6, 1)

DayIndex(y, m, d) == Ordinal(y, m, d) - EpochOrdinal

\* date.weekday(): Monday = 0
Weekday(day) == (day + 6) % 7

\* datetime.combine(date, datetime.min.time(), tzinfo=UTC)
Midnight(day) == day * QuartersPerDay

\* datetime.replace(hour=h, minute=0, second=0, microsecond=0) in UTC
ReplaceHour(t, h) == (t \div QuartersPerDay) * QuartersPerDay + h * QuartersPerHour

OneDay == QuartersPerDay

\* the keys of day_map in insertion order
DayKeys ==
  << <<"t","o","d","a","y">>, <<"t","o","m","o","r","r","o","w">>, <<"m","o","n","d","a","y">>, <<"t","u","e","s","d","a","y">>, <<"w","e","d","n","e","s","d","a","y">>,
     <<"t","h","u","r","s","d","a","y">>, <<"f","r","i","d","a","y">>, <<"s","a","t","u","r","d","a","y">>, <<"s","u","n","d","a","y">> >>

\* day_map[DayKeys[i]] for today's day index
DayMapDate(i, today) ==
  IF i = 1 THEN today
  ELSE IF i = 2 THEN today + 1
  ELSE today + (((i - 3) - Weekday(today)) % 7)

MonthNames ==
  << <<"j","a","n","u","a","r","y">>, <<"f","e","b","r","u","a","r","y">>, <<"m","a","r","c","h">>, <<"a","p","r","i","l">>, <<"m","a","y">>, <<"j","u","n","e">>, <<"j","u","l","y">>,
     <<"a","u","g","u","s","t">>, <<"s","e","p","t","e","m","b","e","r">>, <<"o","c","t","o","b","e","r">>, <<"n","o","v","e","m","b","e","r">>, <<"d","e","c","e","m","b","e","r">> >>

NoMatch == [ok |-> FALSE]

\* date_pattern tried at position i:
\* (january|...|december)\s+(\d{1,2}),\s*(\d{4})
MatchDateAt(s, i) ==
  LET ms == {m \in 1..12 : StartsAt(s, i, MonthNames[m])}
  IN IF ms = {} THEN NoMatch
     ELSE LET m == CHOOSE x \in ms : TRUE
              p0 == i + Len(MonthNames[m])
              p1 == SkipSpaces(s, p0)
              nd == IF IsDigitAt(s, p1) /\ IsDigitAt(s, p1 + 1) /\ StartsAt(s, p1 + 2, <<",">>) THEN 2
                    ELSE IF IsDigitAt(s, p1) /\ StartsAt(s, p1 + 1, <<",">>) THEN 1
                    ELSE 0
              p2 == SkipSpaces(s, p1 + nd + 1)
          IN IF p1 > p0 /\ nd > 0 /\ \A j \in 0..3 : IsDigitAt(s, p2 + j)
               THEN [ok |-> TRUE, month |-> m, day |-> IntOf(s, p1, p1 + nd - 1),
                     year |-> IntOf(s, p2, p2 + 3)]
               ELSE NoMatch

Min(S) == CHOOSE x \in S : \A y \in S : x <= y

\* re.search(date_pattern, message): the leftmost match
SearchDate(s) ==
  LET at == {i \in 1..Len(s) : MatchDateAt(s, i).ok}
  IN IF at = {} THEN NoMatch ELSE MatchDateAt(s, Min(at))

\* datetime(year, month, day) raises ValueError outside the calendar
ValidDate(y, m, d) == y >= 1 /\ d >= 1 /\ d <= DaysInMonth(y, m)

AnyPhrases == << <<"a","n","y"," ","s","l","o","t">>, <<"a","n","y"," ","t","i","m","e">>, <<"w","h","o","l","e"," ","d","a","y">>, <<"a","l","l"," ","d","a","y">> >>

NotFound == [raised |-> FALSE, found |-> FALSE, start |-> 0, end |-> 0]

FullDay(day) == [raised |-> FALSE, found |-> TRUE, start |-> Midnight(day), end |-> Midnight(day) + OneDay]

\* for day, date in day_map.items(): if day in message: ...; break
DayKeyRange(message, today) ==
  LET keys == {i \in 1..Len(DayKeys) : Contains(message, DayKeys[i])}
  IN IF keys = {} THEN NotFound ELSE FullDay(DayMapDate(Min(keys), today))

\* if match: start_date = datetime(year, month, day, tzinfo=UTC); ...
\* (overwrites the range of the day keyword)
ExplicitRangeMutant(match, byKey) ==
  IF byKey.found THEN byKey
  ELSE IF match.ok THEN FullDay(DayIndex(match.year, match.month, match.day)) ELSE byKey

ExplicitRange(match, byKey) ==
  IF match.ok THEN FullDay(DayIndex(match.year, match.month, match.day)) ELSE byKey

\* the "afternoon" and "any slot"/"any time"/"whole day"/"all day" branches
NarrowRange(message, nowUtc, range) ==
  IF range.found /\ Contains(message, <<"a","f","t","e","r","n","o","o","n">>)
    THEN [raised |-> FALSE, found |-> TRUE,
          start |-> ReplaceHour(range.start, 12),
          end |-> ReplaceHour(ReplaceHour(range.start, 12), 18)]
  ELSE IF \E i \in 1..Len(AnyPhrases) : Contains(message, AnyPhrases[i])
    THEN [raised |-> FALSE, found |-> TRUE,
          start |-> IF range.found THEN ReplaceHour(range.start, 9)
                    ELSE ReplaceHour(nowUtc + OneDay, 9),
          end |-> ReplaceHour(IF range.found THEN ReplaceHour(range.start, 9)
                              ELSE ReplaceHour(nowUtc + OneDay, 9), 18)]
  ELSE range

\* the rest of parse_user_date once re.search(date_pattern, message) is known
ParseWithMatch(message, nowUtc, match) ==
  IF match.ok /\ ~ ValidDate(match.year, match.month, match.day)
    THEN [raised |-> TRUE, found |-> FALSE, start |-> 0, end |-> 0]
    ELSE NarrowRange(message, nowUtc,
                     ExplicitRange(match, DayKeyRange(message, nowUtc \div QuartersPerDay)))

\* parse_user_date(message) at the current instant (message.lower() first);
\* found = FALSE is the (None, None) result, raised = TRUE is the ValueError
\* of datetime(...)
parse_user_date(message, nowUtc) ==
  ParseWithMatch(Lower(message), nowUtc, SearchDate(Lower(message)))

(***************************************************************************)
(* app: text conversions shared by the handlers                            *)
(***************************************************************************)
\* str.strip()
RECURSIVE StripRight(_)
StripRight(s) ==
  IF Len(s) > 0 /\ s[Len(s)] \in Spaces THEN StripRight(SubSeq(s, 1, Len(s) - 1)) ELSE s

Strip(s) == LET i == SkipSpaces(s, 1) IN StripRight(SubSeq(s, i, Len(s)))

\* the calendar date of a day index (datetime.date of an instant)
YearOf(ord) ==
  CHOOSE y \in (ord \div 366)..(ord \div 365 + 1) :
    DaysBeforeYear(y) < ord /\ ord <= DaysBeforeYear(y + 1)

MonthOf(ord) ==
  LET y == YearOf(ord)
      n == ord - DaysBeforeYear(y)
  IN CHOOSE m \in 1..12 : DaysBeforeMonth(y, m) < n /\ n <= DaysBeforeMonth(y, m) + DaysInMonth(y, m)

DayOfMonth(ord) == ord - DaysBeforeYear(YearOf(ord)) - DaysBeforeMonth(YearOf(ord), MonthOf(ord))

MonthDisplay ==
  << <<"J","a","n","u","a","r","y">>, <<"F","e","b","r","u","a","r","y">>, <<"M","a","r","c","h">>, <<"A","p","r","i","l">>, <<"M","a","y">>, <<"J","u","n","e">>, <<"J","u","l","y">>,
     <<"A","u","g","u","s","t">>, <<"S","e","p","t","e","m","b","e","r">>, <<"O","c","t","o","b","e","r">>, <<"N","o","v","e","m","b","e","r">>, <<"D","e","c","e","m","b","e","r">> >>

\* datetime.fromisoformat(slot.replace('Z', '+00:00')).astimezone(tz)
\*   .strftime("%B %d, %Y, %I:%M %p")
FormatSlot(t) ==
  LET ord == LocalDay(t, IstOffset) + EpochOrdinal
      h == IstHour(t)
      h12 == IF h % 12 = 0 THEN 12 ELSE h % 12
  IN MonthDisplay[MonthOf(ord)] \o <<" ">> \o Str2(DayOfMonth(ord)) \o <<","," ">>
       \o Str(YearOf(ord)) \o <<","," ">> \o Str2(h12) \o <<":">>
       \o Str2(LocalQuarter(t, IstOffset) * 15) \o <<" ">>
       \o (IF h < 12 THEN <<"A","M">> ELSE <<"P","M">>)

FormatSlots(slots) == [i \in 1..Len(slots) |-> FormatSlot(slots[i])]

(***************************************************************************)
(* app: the hour mentions of suggest_slots                                 *)
(***************************************************************************)
\* one alternative of (\d{1,2})(?::(\d{2}))?\s*(am|pm) at position i:
\* nd digits, with or without the ":mm" group
TryTime(s, i, nd, colon) ==
  LET p1 == i + nd
      p2 == IF colon THEN p1 + 3 ELSE p1
      p3 == SkipSpaces(s, p2)
      digitsOk == \A j \in 0..(nd - 1) : IsDigitAt(s, i + j)
      colonOk == ~ colon \/ (StartsAt(s, p1, <<":">>) /\ IsDigitAt(s, p1 + 1) /\ IsDigitAt(s, p1 + 2))
      mer == IF StartsAt(s, p3, <<"a","m">>) THEN "am"
             ELSE IF StartsAt(s, p3, <<"p","m">>) THEN "pm" ELSE "none"
  IN IF digitsOk /\ colonOk /\ mer # "none"
       THEN [ok |-> TRUE, hour |-> IntOf(s, i, i + nd - 1),
             minute |-> IF colon THEN IntOf(s, p1 + 1, p1 + 2) ELSE 0,
             meridian |-> mer, next |-> p3 + 2]
       ELSE NoMatch

\* the regex engine's order: greedy digits, greedy optional group
MatchTimeAt(s, i) ==
  IF TryTime(s, i, 2, TRUE).ok THEN TryTime(s, i, 2, TRUE)
  ELSE IF TryTime(s, i, 2, FALSE).ok THEN TryTime(s, i, 2, FALSE)
  ELSE IF TryTime(s, i, 1, TRUE).ok THEN TryTime(s, i, 1, TRUE)
  ELSE TryTime(s, i, 1, FALSE)

\* the 24-hour conversion of one match
Hour24Mutant(hour, meridian) == hour

Hour24(hour, meridian) ==
  IF meridian = "pm" /\ hour # 12 THEN hour + 12
  ELSE IF meridian = "am" /\ hour = 12 THEN 0
  ELSE hour

\* re.finditer: leftmost non-overlapping matches, in order; at is the set
\* of positions where the pattern matches, i the position the scan resumes at
RECURSIVE TimeMatchesFrom(_, _, _)
TimeMatchesFrom(s, i, at) ==
  LET later == {p \in at : p >= i}
  IN IF later = {} THEN <<>>
     ELSE <<MatchTimeAt(s, Min(later))>> \o TimeMatchesFrom(s, MatchTimeAt(s, Min(later)).next, at)

TimeMatches(s) == TimeMatchesFrom(s, 1, {i \in 1..Len(s) : MatchTimeAt(s, i).ok})

\* requested_hours of suggest_slots
RequestedHours(s) ==
  LET ms == TimeMatches(s)
  IN [k \in 1..Len(ms) |-> Hour24(ms[k].hour, ms[k].meridian)]

InSeq(x, seq) == \E k \in 1..Len(seq) : seq[k] = x

(***************************************************************************)
(* backend: POST /book, GET /upcoming-events, DELETE /cancel/{id}          *)
(***************************************************************************)
\* the HTTPException(400) of the range check is raised inside the try block
\* and caught by "except Exception", which turns it into a 500
book_appointment(req, svc) ==
  IF ~ req.wellFormed
    THEN [status |-> 400, detail |-> "Invalid datetime format", inserted |-> FALSE]
  ELSE IF req.start >= req.end
    THEN [status |-> 500, detail |-> "Error booking appointment", inserted |-> FALSE]
  ELSE IF ~ svc.ok
    THEN [status |-> 500, detail |-> "Error booking appointment", inserted |-> TRUE]
  ELSE [status |-> 200, detail |-> "Event created", inserted |-> TRUE]

get_upcoming_events(svc) ==
  IF ~ svc.ok THEN [status |-> 500, events |-> <<>>]
  ELSE [status |-> 200, events |-> svc.events]

cancel_event(event_id, svc) ==
  IF ~ svc.ok THEN [status |-> 500] ELSE [status |-> 200]

(***************************************************************************)
(* app: conversation turns and the AgentState                              *)
(***************************************************************************)
UserTurn(text) == [content |-> text, role |-> "user"]

ContentTurn(text) == [content |-> text, role |-> "assistant"]

\* {"error": ..., "role": "assistant"}: a turn without a "content" key
ErrorTurn(text) == [error |-> text, role |-> "assistant"]

HasContent(turn) == "content" \in DOMAIN turn

AllHaveContent(turns) == \A k \in 1..Len(turns) : HasContent(turns[k])

Last(seq) == seq[Len(seq)]

\* str(e) of the exceptions the model raises
ExcText(e) ==
  CASE e = "ValueError" -> <<"d","a","y"," ","i","s"," ","o","u","t"," ","o","f"," ","r","a","n","g","e"," ","f","o","r"," ","m","o","n","t","h">>
    [] e = "KeyError" -> <<"'","c","o","n","t","e","n","t","'">>
    [] e = "ConnectError" -> <<"A","l","l"," ","c","o","n","n","e","c","t","i","o","n"," ","a","t","t","e","m","p","t","s"," ","f","a","i","l","e","d">>
    [] e = "HTTPStatusError" -> <<"S","e","r","v","e","r"," ","e","r","r","o","r"," ","'","5","0","0"," ","I","n","t","e","r","n","a","l"," ","S","e","r","v","e","r"," ","E","r","r","o","r","'">>
    [] OTHER -> <<"m","o","d","e","l"," ","u","n","a","v","a","i","l","a","b","l","e">>

\* state["messages"].append(...)
AppendMsg(st, turn) == [st EXCEPT !.messages = Append(@, turn)]

NoSlot == <<>>

\* the state dict built in main for every prompt
FreshState(messages) ==
  [messages |-> [k \in 1..Len(messages) |-> [content |-> messages[k].content, role |-> messages[k].role]],
   intent |-> <<>>, suggested_slots |-> <<>>, confirmed_slot |-> NoSlot,
   time_zone |-> "Asia/Kolkata", events |-> <<>>]

Greeting == ContentTurn(<<"H","e","l","l","o","!"," ","H","o","w"," ","c","a","n"," ","I"," ","a","s","s","i","s","t"," ","y","o","u"," ","t","o","d","a","y","?">>)

\* one entry of the log of external calls of the current turn; a and b are
\* the arguments of the call the properties read: the queried or booked
\* range, the event id, the slots whose formatted text suggest_slots puts in
\* the suggestion prompt
Call(op, node, a, b) == [op |-> op, node |-> node, a |-> a, b |-> b]

(***************************************************************************)
(* app: route and the graph edges                                          *)
(***************************************************************************)
route(intent) ==
  IF intent = <<"b","o","o","k","_","a","p","p","o","i","n","t","m","e","n","t">> THEN "check_availability"
  ELSE IF intent = <<"c","h","e","c","k","_","a","v","a","i","l","a","b","i","l","i","t","y">> THEN "check_availability"
  ELSE IF intent = <<"c","o","n","f","i","r","m","_","b","o","o","k","i","n","g">> THEN "confirm_booking"
  ELSE IF intent = <<"c","a","n","c","e","l">> THEN "cancel"
  ELSE "suggest_slots"

(***************************************************************************)
(* app: the graph nodes, as functions of the AgentState and of the answers *)
(* of the language model, the network and the calendar                     *)
(***************************************************************************)
\* what a node run leaves behind: the state, the exception it raised
\* ("none" when it returned), the external calls it made, the text it scanned
Result(st, raised, made, text) == [state |-> st, raised |-> raised, calls |-> made, scanned |-> text]

NoText == <<>>

\* llm: [ok, text], the outcome of llm.invoke
identify_intent(st, llm) ==
  IF ~ AllHaveContent(st.messages)
    THEN Result(st, "KeyError", <<>>, NoText)
  ELSE IF llm.ok
    THEN Result([st EXCEPT !.intent = Strip(llm.text)], "none",
                <<Call("llm", "identify_intent", 0, 0)>>, NoText)
  ELSE Result([AppendMsg(st, ErrorTurn(<<"E","r","r","o","r"," ","p","r","o","c","e","s","s","i","n","g"," ","r","e","q","u","e","s","t",":"," ">> \o ExcText("LlmError")
                                        \o <<"."," ","P","l","e","a","s","e"," ","t","r","y"," ","a","g","a","i","n",".">>))
                 EXCEPT !.intent = <<"u","n","c","l","e","a","r">>],
              "none", <<Call("llm", "identify_intent", 0, 0)>>, NoText)

\* the range check_availability_node queries when parse_user_date finds none
DefaultRange(nowUtc) ==
  [start |-> ReplaceHour(nowUtc + OneDay, 0), end |-> ReplaceHour(nowUtc + OneDay, 0) + 7 * OneDay]

\* the end of check_availability_node, once the answer of the backend is known
AvailabilityAnswered(st, net, made, resp) ==
  IF net = "connect_error"
    THEN Result(st, "ConnectError", made, NoText)
  ELSE IF resp.status # 200
    THEN Result(AppendMsg(st, ErrorTurn(<<"E","r","r","o","r"," ","c","h","e","c","k","i","n","g"," ","a","v","a","i","l","a","b","i","l","i","t","y",":"," ">>
                                          \o ExcText("HTTPStatusError"))),
                "none", made, NoText)
  ELSE Result(AppendMsg([st EXCEPT !.suggested_slots = resp.available_slots],
                        ContentTurn(<<"A","v","a","i","l","a","b","l","e"," ","s","l","o","t","s"," ","i","n"," ","A","s","i","a","/","K","o","l","k","a","t","a",":"," ">>
                           \o Join(FormatSlots(Take(resp.available_slots, 5)), <<","," ">>))),
              "none", made, NoText)

\* the GET /availability request for the queried range
AvailabilityQuery(st, net, svc, range) ==
  AvailabilityAnswered(st, net,
    <<Call("availability", "check_availability", range.start, range.end)>>,
    get_availability([wellFormed |-> TRUE, start |-> range.start, end |-> range.end], svc))

\* the part of check_availability_node after parse_user_date
AvailabilityParsed(st, nowUtc, net, svc, parsed) ==
  IF parsed.raised
    THEN Result(st, "ValueError", <<>>, NoText)
    ELSE AvailabilityQuery(st, net, svc,
           IF parsed.found THEN [start |-> parsed.start, end |-> parsed.end]
           ELSE DefaultRange(nowUtc))

\* net: "ok" or "connect_error" (httpx raises a transport error, which is
\* not an HTTPStatusError); svc: the calendar's answer, [ok, busy]
check_availability_node(st, nowUtc, net, svc) ==
  IF ~ HasContent(Last(st.messages))
    THEN Result(st, "KeyError", <<>>, NoText)
    ELSE AvailabilityParsed(st, nowUtc, net, svc,
           parse_user_date(Lower(Strip(Last(st.messages).content)), nowUtc))

GreetWords == << <<"h","i">>, <<"h","e","l","l","o">>, <<"h","e","y">> >>

AnytimeWords == << <<"a","n","y","t","i","m","e">>, <<"w","h","o","l","e"," ","d","a","y">>, <<"a","l","l"," ","d","a","y">>, <<"a","n","y"," ","s","l","o","t">> >>

\* prioritized_slots of suggest_slots
PrioritizedSlots(slots, hours) ==
  IF Len(hours) = 0 THEN <<>>
  ELSE SelectSeq(slots, LAMBDA slot : InSeq(IstHour(slot), hours))

\* filtered_slots of suggest_slots
FilteredSlots(slots, message) ==
  LET prioritized == PrioritizedSlots(slots, RequestedHours(message))
      anytime == \E k \in 1..Len(AnytimeWords) : Contains(message, AnytimeWords[k])
  IN IF Len(prioritized) > 0 THEN prioritized
     ELSE IF anytime THEN SelectSeq(slots, LAMBDA slot : 9 <= IstHour(slot) /\ IstHour(slot) < 18)
     ELSE slots

suggest_slots(st, nowUtc, llm) ==
  IF ~ HasContent(Last(st.messages))
    THEN Result(st, "KeyError", <<>>, NoText)
  ELSE
    LET message == Lower(Strip(Last(st.messages).content))
        slots == st.suggested_slots
        presented == Take(FilteredSlots(slots, message), 5)
        formatted == FormatSlots(presented)
    IN IF ~ AllHaveContent(st.messages)
         THEN Result(st, "KeyError", <<>>, message)
       ELSE IF \E k \in 1..Len(GreetWords) : Contains(message, GreetWords[k])
         THEN Result(AppendMsg(st, ContentTurn(<<"H","i","!">>)), "none", <<>>, message)
       ELSE IF Contains(message, <<"g","o","o","d"," ","m","o","r","n","i","n","g">>) /\ IstHour(nowUtc) < 12
         THEN Result(AppendMsg(st, ContentTurn(<<"G","o","o","d"," ","m","o","r","n","i","n","g","!">>)), "none", <<>>, message)
       ELSE IF Len(slots) = 0
         THEN Result(AppendMsg(st, ContentTurn(
                 <<"N","o"," ","a","v","a","i","l","a","b","l","e"," ","s","l","o","t","s"," ","f","o","u","n","d","."," ","P","l","e","a","s","e"," ","t","r","y"," ","a"," ","d","i","f","f","e","r","e","n","t"," ","t","i","m","e"," ","o","r"," ","d","a","t","e",".">>)),
                 "none", <<>>, message)
       ELSE IF Len(formatted) = 0
         THEN Result(AppendMsg(st, ContentTurn(
                 <<"N","o"," ","m","a","t","c","h","i","n","g"," ","s","l","o","t","s"," ","f","o","u","n","d","."," ","W","o","u","l","d"," ","y","o","u"," ","l","i","k","e"," ","t","o"," ","s","e","e"," ","o","t","h","e","r"," ","t","i","m","e"," ","r","a","n","g","e","s","?">>)),
                 "none", <<>>, message)
       ELSE IF llm.ok
         THEN Result(AppendMsg(st, ContentTurn(Strip(llm.text))), "none",
                     <<Call("llm", "suggest_slots", presented, 0)>>, message)
       ELSE Result(AppendMsg(st, ErrorTurn(<<"E","r","r","o","r"," ","s","u","g","g","e","s","t","i","n","g"," ","s","l","o","t","s",":"," ">> \o ExcText("LlmError")
                                             \o <<"."," ","P","l","e","a","s","e"," ","t","r","y"," ","a","g","a","i","n",".">>)),
                   "none", <<Call("llm", "suggest_slots", presented, 0)>>, message)

(***************************************************************************)
(* app: confirm_booking                                                    *)
(***************************************************************************)
\* the index loop: for i, slot in enumerate(slots, 1):
\*   if str(i) in message or f"slot {i}" in message or ("first" in message and i == 1)
SlotIndexHit(message, i) ==
  \/ Contains(message, Str(i))
  \/ Contains(message, <<"s","l","o","t"," ">> \o Str(i))
  \/ (Contains(message, <<"f","i","r","s","t">>) /\ i = 1)

\* 0 when no index of 1..n is mentioned
SelectSlotIndex(message, n) ==
  LET hits == {i \in 1..n : SlotIndexHit(message, i)}
  IN IF hits = {} THEN 0 ELSE CHOOSE i \in hits : \A j \in hits : i <= j

\* dateutil's parser.parse(message, fuzzy=True).time() is a library call:
\* it raises when it finds no date or time, returns 00:00 when it finds a
\* date without a time of day, and otherwise the time of day it found.  The
\* model lets it return any of these; a time of day it can find is one the
\* message mentions as "<h>[:mm] am|pm".
FuzzyRaise == [ok |-> FALSE, hour |-> 0, minute |-> 0]

FuzzyOutcomes(message) ==
  LET ms == TimeMatches(message)
  IN {FuzzyRaise, [ok |-> TRUE, hour |-> 0, minute |-> 0]}
       \cup {[ok |-> TRUE, hour |-> Hour24(ms[k].hour, ms[k].meridian), minute |-> ms[k].minute] :
               k \in 1..Len(ms)}

Abs(x) == IF x < 0 THEN -x ELSE x

\* dt.hour == requested_time.hour and abs(dt.minute - requested_time.minute) <= 15
TimeHit(slot, fuzzy) ==
  /\ IstHour(slot) = fuzzy.hour
  /\ Abs(LocalQuarter(slot, IstOffset) * 15 - fuzzy.minute) <= 15

\* 0 when the parse raised or no slot matches
SelectSlotByTime(slots, fuzzy) ==
  LET hits == {i \in 1..Len(slots) : fuzzy.ok /\ TimeHit(slots[i], fuzzy)}
  IN IF hits = {} THEN 0 ELSE CHOOSE i \in hits : \A j \in hits : i <= j

\* the position in slots confirm_booking selects, 0 when slots is empty
SelectedSlotMutant(slots, message, fuzzy) ==
  LET byIndex == SelectSlotIndex(message, Len(slots))
      byTime == SelectSlotByTime(slots, fuzzy)
  IN IF byIndex # 0 THEN byIndex
     ELSE IF byTime # 0 THEN byTime
     ELSE Len(slots)

SelectedSlot(slots, message, fuzzy) ==
  LET byIndex == SelectSlotIndex(message, Len(slots))
      byTime == SelectSlotByTime(slots, fuzzy)
  IN IF byIndex # 0 THEN byIndex
     ELSE IF byTime # 0 THEN byTime
     ELSE IF Len(slots) > 0 THEN 1
     ELSE 0

\* end_time = start_time + timedelta(minutes=30)
BookingEndMutant(start_time) == start_time + QuartersPerHour

BookingEnd(start_time) == start_time + SlotLen

\* llm: [ok, text]; fuzzy: the outcome of the dateutil parse; net, svc: the
\* outcome of POST /book
confirm_booking(st, llm, fuzzy, net, svc) ==
  IF ~ HasContent(Last(st.messages))
    THEN Result(st, "KeyError", <<>>, NoText)
  ELSE
    LET message == Lower(Strip(Last(st.messages).content))
        slots == st.suggested_slots
        sel == SelectedSlot(slots, message, fuzzy)
        st1 == [st EXCEPT !.confirmed_slot = <<slots[sel]>>]
        llmCall == <<Call("llm", "confirm_booking", 0, 0)>>
        historyOk == AllHaveContent(st.messages)
        st2 == AppendMsg(st1, ContentTurn(Strip(llm.text)))
        start_time == slots[sel]
        end_time == BookingEnd(start_time)
        resp == book_appointment([wellFormed |-> TRUE, start |-> start_time, end |-> end_time], svc)
        post == <<Call("book", "confirm_booking", start_time, end_time)>>
    IN IF sel = 0
         THEN Result(AppendMsg(st, ContentTurn(
                 <<"N","o"," ","a","v","a","i","l","a","b","l","e"," ","s","l","o","t","s"," ","t","o"," ","c","o","n","f","i","r","m","."," ","P","l","e","a","s","e"," ","c","h","e","c","k"," ","a","v","a","i","l","a","b","i","l","i","t","y"," ","f","i","r","s","t",".">>)),
                 "none", <<>>, message)
       ELSE IF ~ historyOk
         THEN Result(AppendMsg(st1, ErrorTurn(<<"E","r","r","o","r"," ","c","o","n","f","i","r","m","i","n","g"," ","b","o","o","k","i","n","g",":"," ">> \o ExcText("KeyError")
                                               \o <<"."," ","P","l","e","a","s","e"," ","t","r","y"," ","a","g","a","i","n",".">>)),
                     "none", <<>>, message)
       ELSE IF ~ llm.ok
         THEN Result(AppendMsg(st1, ErrorTurn(<<"E","r","r","o","r"," ","c","o","n","f","i","r","m","i","n","g"," ","b","o","o","k","i","n","g",":"," ">> \o ExcText("LlmError")
                                               \o <<"."," ","P","l","e","a","s","e"," ","t","r","y"," ","a","g","a","i","n",".">>)),
                     "none", llmCall, message)
       ELSE IF net = "connect_error"
         THEN Result(st2, "ConnectError", llmCall \o post, message)
       ELSE IF resp.status # 200
         THEN Result(AppendMsg(st2, ErrorTurn(<<"E","r","r","o","r"," ","b","o","o","k","i","n","g"," ","a","p","p","o","i","n","t","m","e","n","t",":"," ">>
                                               \o ExcText("HTTPStatusError"))),
                     "none", llmCall \o post, message)
       ELSE Result(AppendMsg(st2, ContentTurn(<<"B","o","o","k","i","n","g"," ","c","o","n","f","i","r","m","e","d",":"," ","E","v","e","n","t"," ","c","r","e","a","t","e","d",":"," ","l","i","n","k">>)),
                   "none", llmCall \o post, message)

(***************************************************************************)
(* app: cancel_booking                                                     *)
(***************************************************************************)
\* f"{i+1}. {e['summary']} at {...strftime(...)}", joined by "\n"
EventList(events) ==
  Join([i \in 1..Len(events) |->
          Str(i) \o <<"."," ">> \o events[i].summary \o <<" ","a","t"," ">> \o FormatSlot(events[i].start)],
       <<"\n">>)

\* any(str(i+1) in message for i in range(len(events)))
MentionsEventIndex(message, n) == \E i \in 1..n : Contains(message, Str(i))

SelectEventIndexMutant(message, n) ==
  LET hits == {i \in 1..n : Contains(message, Str(i))}
  IN IF hits = {} THEN 0 ELSE CHOOSE i \in hits : \A j \in hits : i >= j

\* the loop "for i in range(len(events)): if str(i+1) in message": the
\* 1-based position of the selected event, 0 for None
SelectEventIndex(message, n) ==
  LET hits == {i \in 1..n : Contains(message, Str(i))}
  IN IF hits = {} THEN 0 ELSE CHOOSE i \in hits : \A j \in hits : i <= j

\* if not events
NoEventsMutant(events) == FALSE

NoEvents(events) == Len(events) = 0

\* net1, svc1: the outcome of GET /upcoming-events ([ok, events]);
\* net2, svc2: the outcome of DELETE /cancel/{id}
cancel_booking(st, net1, svc1, net2, svc2) ==
  LET fetch == <<Call("upcoming", "cancel", 0, 0)>>
      resp1 == get_upcoming_events(svc1)
      st1 == [st EXCEPT !.events = resp1.events]
      events == resp1.events
      message == Lower(Strip(Last(st.messages).content))
      event_list == EventList(events)
      selected == SelectEventIndex(message, Len(events))
      delete == <<Call("cancel", "cancel", events[selected].id, 0)>>
      resp2 == cancel_event(events[selected].id, svc2)
  IN IF net1 = "connect_error"
       THEN Result(st, "ConnectError", fetch, NoText)
     ELSE IF resp1.status # 200
       THEN Result(AppendMsg(st, ErrorTurn(<<"E","r","r","o","r"," ","f","e","t","c","h","i","n","g"," ","u","p","c","o","m","i","n","g"," ","e","v","e","n","t","s",":"," ">>
                                             \o ExcText("HTTPStatusError"))),
                   "none", fetch, NoText)
     ELSE IF ~ HasContent(Last(st.messages))
       THEN Result(st1, "KeyError", fetch, NoText)
     ELSE IF NoEvents(events)
       THEN Result(AppendMsg(st1, ContentTurn(<<"N","o"," ","u","p","c","o","m","i","n","g"," ","b","o","o","k","i","n","g","s"," ","f","o","u","n","d",".">>)),
                   "none", fetch, message)
     ELSE IF ~ Contains(message, <<"s","e","l","e","c","t">>) /\ ~ MentionsEventIndex(message, Len(events))
       THEN Result(AppendMsg(st1, ContentTurn(<<"P","l","e","a","s","e"," ","s","e","l","e","c","t"," ","a","n"," ","e","v","e","n","t"," ","t","o"," ","c","a","n","c","e","l",":","\n">> \o event_list)),
                   "none", fetch, message)
     ELSE IF selected = 0
       THEN Result(AppendMsg(st1, ContentTurn(<<"P","l","e","a","s","e"," ","s","p","e","c","i","f","y"," ","t","h","e"," ","e","v","e","n","t"," ","n","u","m","b","e","r"," ","t","o"," ","c","a","n","c","e","l",":","\n">>
                                                \o event_list)),
                   "none", fetch, message)
     ELSE IF net2 = "connect_error"
       THEN Result(st1, "ConnectError", fetch \o delete, message)
     ELSE IF resp2.status # 200
       THEN Result(AppendMsg(st1, ErrorTurn(<<"E","r","r","o","r"," ","c","a","n","c","e","l","l","i","n","g"," ","b","o","o","k","i","n","g",":"," ">>
                                              \o ExcText("HTTPStatusError"))),
                   "none", fetch \o delete, message)
     ELSE Result(AppendMsg(st1, ContentTurn(<<"C","a","n","c","e","l","l","e","d"," ","b","o","o","k","i","n","g",":"," ">> \o events[selected].summary
                                             \o <<" ","a","t"," ">> \o FormatSlot(events[selected].start))),
                 "none", fetch \o delete, message)

(***************************************************************************)
(* Spec: the chat loop of main and the compiled graph                      *)
(***************************************************************************)
\* user messages submitted in one session
MaxTurns == 2

\* 2025-06-04 (a Wednesday) 02:30 UTC = 08:00 IST and 08:00 UTC = 13:30 IST
NowSet == {3 * QuartersPerDay + 10, 3 * QuartersPerDay + 32}

Prompts ==
  { <<"H","i">>,
    <<"g","o","o","d"," ","m","o","r","n","i","n","g">>,
    <<"B","o","o","k"," ","a"," ","s","l","o","t"," ","t","o","m","o","r","r","o","w"," ","a","t"," ","2","p","m">>,
    <<"B","o","o","k"," ","J","u","n","e"," ","3","1",","," ","2","0","2","5">>,
    <<"a","n","y"," ","f","r","e","e"," ","s","l","o","t","s","?">>,
    <<"c","a","n","c","e","l"," ","m","y"," ","b","o","o","k","i","n","g">>,
    <<"1","0">>,
    <<"y","e","s"," ","2">> }

\* what the model answers to the intent prompt
IntentOutputs ==
  { <<"b","o","o","k","_","a","p","p","o","i","n","t","m","e","n","t">>, <<"c","h","e","c","k","_","a","v","a","i","l","a","b","i","l","i","t","y">>, <<"c","o","n","f","i","r","m","_","b","o","o","k","i","n","g">>,
    <<" ","c","a","n","c","e","l","\n">>, <<"u","n","c","l","e","a","r">>, <<"g","r","e","e","t","i","n","g">> }

LlmFailure == [ok |-> FALSE, text |-> <<>>]

IntentOutcomes == {[ok |-> TRUE, text |-> t] : t \in IntentOutputs} \cup {LlmFailure}

ReplyOutcomes == {[ok |-> TRUE, text |-> <<"S","u","r","e","."," ","\n">>], LlmFailure}

NetOutcomes == {"ok", "connect_error"}

\* the calendar is free, or busy over the whole queried range
ChatBusy == {<<>>, <<[start |-> 0, end |-> 20 * QuartersPerDay, allDay |-> FALSE]>>}

AvailSvc == {[ok |-> TRUE, busy |-> b] : b \in ChatBusy} \cup {[ok |-> FALSE, busy |-> <<>>]}

\* maxResults=10 of GET /upcoming-events
MaxResults == 10

Events(n) ==
  [i \in 1..n |-> [id |-> 100 + i, summary |-> <<"M","e","e","t","i","n","g">>,
                   start |-> (4 + i) * QuartersPerDay + 20]]

UpcomingSvc ==
  {[ok |-> TRUE, events |-> Events(n)] : n \in {0, 2, MaxResults}} \cup {[ok |-> FALSE, events |-> <<>>]}

WriteSvc == {[ok |-> TRUE], [ok |-> FALSE]}

NoState == FreshState(<<>>)

NoCall == [done |-> FALSE]

NoInput == [fn |-> "none"]

UserTurns(turns) == Cardinality({k \in 1..Len(turns) : turns[k].role = "user"})

Init ==
  /\ session = <<Greeting>>
  /\ pc = "idle"
  /\ state = NoState
  /\ now \in NowSet
  /\ calls = <<>>
  /\ trace = <<>>
  /\ exc = "none"
  /\ scanned = NoText
  /\ prevSlots = <<>>
  /\ fin = NoInput
  /\ fout = NoCall

\* the script rerun for a new prompt: the history is rendered, then main
\* appends the prompt and builds the state for graph.ainvoke
Submit ==
  /\ pc = "idle"
  /\ UserTurns(session) < MaxTurns
  /\ AllHaveContent(session)
  /\ \E prompt \in Prompts :
       /\ session' = Append(session, UserTurn(prompt))
       /\ state' = FreshState(Append(session, UserTurn(prompt)))
  /\ pc' = "identify_intent"
  /\ calls' = <<>>
  /\ trace' = <<>>
  /\ exc' = "none"
  /\ scanned' = NoText
  /\ UNCHANGED <<now, prevSlots, fin, fout>>

\* the history rendering reads message['content'] of every stored turn
\* outside any try block: a turn without content ends the script run with a
\* KeyError before the chat input is reached
RenderCrash ==
  /\ pc = "idle"
  /\ ~ AllHaveContent(session)
  /\ pc' = "crashed"
  /\ UNCHANGED <<session, state, now, calls, trace, exc, scanned, prevSlots, fin, fout>>

\* prevSlots is a history variable of the model, not a value the program
\* keeps: the candidate slots the turn before the current one ended with.
\* The state dict, the call log and the node trace of a turn are dropped
\* when the turn ends, as the local variables of main are.

\* a node ran: it returned (the graph moves to target) or raised (the
\* exception leaves graph.ainvoke)
NodeRan(node, r, target) ==
  /\ state' = r.state
  /\ calls' = calls \o r.calls
  /\ trace' = Append(trace, node)
  /\ exc' = r.raised
  /\ scanned' = IF node = "suggest_slots" THEN r.scanned ELSE scanned
  /\ pc' = IF r.raised # "none" THEN "main_except" ELSE target
  /\ UNCHANGED <<session, now, prevSlots, fin, fout>>

IdentifyIntent ==
  /\ pc = "identify_intent"
  /\ \E llm \in IntentOutcomes :
       LET r == identify_intent(state, llm)
       IN NodeRan("identify_intent", r, route(r.state.intent))

CheckAvailability ==
  /\ pc = "check_availability"
  /\ \E net \in NetOutcomes, svc \in AvailSvc :
       NodeRan("check_availability", check_availability_node(state, now, net, svc), "suggest_slots")

SuggestSlots ==
  /\ pc = "suggest_slots"
  /\ \E llm \in ReplyOutcomes :
       NodeRan("suggest_slots", suggest_slots(state, now, llm), "end")

ConfirmBooking ==
  /\ pc = "confirm_booking"
  /\ \E llm \in ReplyOutcomes, net \in NetOutcomes, svc \in WriteSvc :
       \E fuzzy \in FuzzyOutcomes(Lower(Strip(Last(state.messages).content))) :
          NodeRan("confirm_booking", confirm_booking(state, llm, fuzzy, net, svc), "end")

CancelBooking ==
  /\ pc = "cancel"
  /\ \E net1 \in NetOutcomes, svc1 \in UpcomingSvc, net2 \in NetOutcomes, svc2 \in WriteSvc :
       NodeRan("cancel", cancel_booking(state, net1, svc1, net2, svc2), "end")

\* graph.ainvoke returned: main stores result["messages"][-1] and then
\* reads its 'content'; the KeyError of a turn without content is caught by
\* the except branch, which stores the apology turn as well
Finish ==
  /\ pc = "end"
  /\ LET new_message == [Last(state.messages) EXCEPT !.role = "assistant"]
     IN session' = IF HasContent(new_message)
                     THEN Append(session, new_message)
                     ELSE Append(Append(session, new_message),
                                 ContentTurn(<<"S","o","r","r","y",","," ","s","o","m","e","t","h","i","n","g"," ","w","e","n","t"," ","w","r","o","n","g",":"," ">> \o ExcText("KeyError")
                                               \o <<"."," ","P","l","e","a","s","e"," ","t","r","y"," ","a","g","a","i","n",".">>))
  /\ pc' = "idle"
  /\ state' = NoState
  /\ calls' = <<>>
  /\ trace' = <<>>
  /\ exc' = "none"
  /\ scanned' = NoText
  /\ prevSlots' = state.suggested_slots
  /\ UNCHANGED <<now, fin, fout>>

\* graph.ainvoke raised: the except branch of main stores the apology turn
MainExcept ==
  /\ pc = "main_except"
  /\ session' = Append(session, ContentTurn(<<"S","o","r","r","y",","," ","s","o","m","e","t","h","i","n","g"," ","w","e","n","t"," ","w","r","o","n","g",":"," ">> \o ExcText(exc)
                                              \o <<"."," ","P","l","e","a","s","e"," ","t","r","y"," ","a","g","a","i","n",".">>))
  /\ pc' = "idle"
  /\ state' = NoState
  /\ calls' = <<>>
  /\ trace' = <<>>
  /\ exc' = "none"
  /\ scanned' = NoText
  /\ prevSlots' = state.suggested_slots
  /\ UNCHANGED <<now, fin, fout>>

Next ==
  \/ Submit
  \/ RenderCrash
  \/ IdentifyIntent
  \/ CheckAvailability
  \/ SuggestSlots
  \/ ConfirmBooking
  \/ CancelBooking
  \/ Finish
  \/ MainExcept

Spec == Init /\ [][Next]_vars

(***************************************************************************)
(* Properties of the chat loop                                             *)
(***************************************************************************)
\* a prompt is being processed: the last stored turn is the user's
InTurn == pc \notin {"idle", "crashed", "off"}

\* the user's message of the current turn, as the handlers read a message
UserMessage == Lower(Strip(Last(session).content))

\* the graph run of the current turn is over
TurnOver == pc \in {"end", "main_except"}

Ran(node) == \E k \in 1..Len(trace) : trace[k] = node

ChatCalls(op) == {k \in 1..Len(calls) : calls[k].op = op}

\* C1: when the turn before produced candidate slots and this message is
\* classified confirm_booking, the booking handler works on those slots,
\* confirms one of them and posts its booking
C1_BookingSeesSuggestedSlots ==
  (TurnOver /\ Ran("confirm_booking") /\ Len(prevSlots) > 0) =>
    /\ state.suggested_slots = prevSlots
    /\ Len(state.confirmed_slot) = 1
    /\ InSeq(state.confirmed_slot[1], prevSlots)
    /\ (exc = "none" /\ HasContent(Last(state.messages))) =>
          \E c \in ChatCalls("book") : calls[c].a = state.confirmed_slot[1]

\* C2: whatever fails, every stored turn has text content and the script
\* run for the next prompt does not crash
C2_NoCrashAllTurnsHaveContent == AllHaveContent(session) /\ pc # "crashed"

\* C4 in the chat loop: a prompt that is the bare number k or "slot k",
\* 1 <= k <= N, makes confirm_booking confirm the k-th candidate slot and
\* cancel_booking delete the k-th fetched event
C4_LiteralIndexInChat ==
  \A k \in 1..MaxResults :
    (TurnOver /\ (UserMessage = Str(k) \/ UserMessage = <<"s","l","o","t"," ">> \o Str(k))) =>
      /\ (Ran("confirm_booking") /\ k <= Len(state.suggested_slots)) =>
            state.confirmed_slot = <<state.suggested_slots[k]>>
      /\ (Ran("cancel") /\ k <= Len(state.events)) =>
            \A c \in ChatCalls("cancel") : calls[c].a = state.events[k].id

\* the message has a month-name + day + year literal whose day does not
\* exist in that month
InvalidDateLiteral(message) ==
  /\ SearchDate(message).ok
  /\ \/ SearchDate(message).day < 1
     \/ SearchDate(message).day > DaysInMonth(SearchDate(message).year, SearchDate(message).month)

\* C6: for such a message the availability handler does not raise and
\* queries tomorrow 00:00 through +7 days
C6_InvalidDateFallsBackToDefault ==
  (InTurn /\ Ran("check_availability") /\ InvalidDateLiteral(UserMessage)) =>
    /\ exc # "ValueError"
    /\ \E c \in ChatCalls("availability") :
          /\ calls[c].a = ((now + 96) \div 96) * 96
          /\ calls[c].b = ((now + 96) \div 96) * 96 + 7 * 96

IntentSet ==
  { <<"b","o","o","k","_","a","p","p","o","i","n","t","m","e","n","t">>, <<"c","h","e","c","k","_","a","v","a","i","l","a","b","i","l","i","t","y">>, <<"c","o","n","f","i","r","m","_","b","o","o","k","i","n","g">>, <<"c","a","n","c","e","l">>, <<"u","n","c","l","e","a","r">> }

\* C7: once identify_intent ran, the recorded intent is one of the five
\* intents
C7_IntentInClosedSet == (InTurn /\ Ran("identify_intent")) => state.intent \in IntentSet

\* the routing table of the specification
RoutingTable(intent) ==
  CASE intent \in {<<"b","o","o","k","_","a","p","p","o","i","n","t","m","e","n","t">>, <<"c","h","e","c","k","_","a","v","a","i","l","a","b","i","l","i","t","y">>} -> "check_availability"
    [] intent = <<"c","o","n","f","i","r","m","_","b","o","o","k","i","n","g">> -> "confirm_booking"
    [] intent = <<"c","a","n","c","e","l">> -> "cancel"
    [] OTHER -> "suggest_slots"

\* C8: the node after identify_intent is the one the routing table names,
\* and a turn never ends with check_availability as its last node
C8_RoutingAndChaining ==
  /\ (InTurn /\ Len(trace) >= 2) => trace[2] = RoutingTable(state.intent)
  /\ (TurnOver /\ Ran("check_availability")) => Last(trace) # "check_availability"

\* "hi", "hello", "hey", or "good morning" before noon in Asia/Kolkata
PureGreeting(message) ==
  \/ message \in {<<"h","i">>, <<"h","e","l","l","o">>, <<"h","e","y">>}
  \/ (message = <<"g","o","o","d"," ","m","o","r","n","i","n","g">> /\ ((now + 22) % 96) \div 4 < 12)

\* C9: in a turn whose message is a pure greeting no language-model call is
\* made and intent classification does not run before the reply
C9_GreetingWithoutModelCall ==
  (InTurn /\ PureGreeting(UserMessage)) =>
    /\ ChatCalls("llm") = {}
    /\ (Ran("identify_intent") => HasContent(Last(state.messages)) /\ trace[1] # "identify_intent")

\* C10: the text suggest_slots scans is the user's message of the turn
C10_SuggestScansUserMessage ==
  (InTurn /\ Ran("suggest_slots") /\ exc = "none") => scanned = UserMessage

\* the node sequences of the graph: classify, then the suggestion, booking
\* or cancellation handler, the suggestion handler after the availability
\* handler
LinearRuns ==
  { <<"identify_intent", "suggest_slots">>,
    <<"identify_intent", "check_availability", "suggest_slots">>,
    <<"identify_intent", "confirm_booking">>,
    <<"identify_intent", "cancel">> }

\* C16: every run of the graph for one message ends at END after one of the
\* linear node sequences, and no external call is made twice by a node
C16_SinglePassToEnd ==
  TurnOver =>
    /\ pc = "end"
    /\ trace \in LinearRuns
    /\ \A i, j \in 1..Len(calls) :
          i < j => ~ (calls[i].op = calls[j].op /\ calls[i].node = calls[j].node)

\* C20: between two prompts the turn log holds the greeting and, for every
\* message submitted, the user turn followed by exactly one assistant turn
C20_TurnLogGrowsByTwo ==
  pc = "idle" =>
    /\ Len(session) = 1 + 2 * UserTurns(session)
    /\ \A k \in 1..Len(session) :
          session[k].role = (IF k % 2 = 1 THEN "assistant" ELSE "user")

(***************************************************************************)
(* Idle values of the chat variables in the function-level specifications  *)
(***************************************************************************)
ChatIdle ==
  /\ session = <<>>
  /\ pc = "off"
  /\ state = NoState
  /\ now = 0
  /\ calls = <<>>
  /\ trace = <<>>
  /\ exc = "none"
  /\ scanned = NoText
  /\ prevSlots = <<>>

ChatVars == <<session, pc, state, now, calls, trace, exc, scanned, prevSlots>>

(***************************************************************************)
(* SpecAvail: get_availability applied to bounded requests and calendars   *)
(***************************************************************************)
MaxRange == 6

MaxBusyLen == 3

\* ranges start around 09:00 IST (03:30 UTC) and around 18:00 IST (12:30 UTC)
AvailStarts ==
  {(BusinessOpen * QuartersPerHour - IstOffset) + d : d \in -2..1}
    \cup {(BusinessClose * QuartersPerHour - IstOffset) - 4 + d : d \in -2..1}

AvailRequests ==
  {[wellFormed |-> TRUE, start |-> s, end |-> s + l] : s \in AvailStarts, l \in 0..MaxRange}
    \cup {[wellFormed |-> FALSE, start |-> 0, end |-> 0]}

BusyIntervals(req) ==
  {[start |-> s, end |-> s + l, allDay |-> FALSE] :
      s \in (req.start - 2)..(req.start + MaxRange), l \in 1..MaxBusyLen}
    \cup {[start |-> 0, end |-> 0, allDay |-> TRUE]}

\* the calendar holds no, one or two events
BusyLists(S) == {<<>>} \cup {<<a>> : a \in S} \cup {<<a, b>> : a \in S, b \in S}

AvailInit ==
  /\ ChatIdle
  /\ fout = NoCall
  /\ \E req \in AvailRequests :
       \E busy \in BusyLists(BusyIntervals(req)), ok \in BOOLEAN :
          fin = [fn |-> "get_availability", req |-> req, svc |-> [ok |-> ok, busy |-> busy]]

AvailCall ==
  /\ ~ fout.done
  /\ fin.fn = "get_availability"
  /\ fout' = [done |-> TRUE, resp |-> get_availability(fin.req, fin.svc)]
  /\ UNCHANGED <<fin, ChatVars>>

AvailNext == AvailCall

SpecAvail == AvailInit /\ [][AvailNext]_vars

AvailOk == fout.done /\ fin.fn = "get_availability" /\ fout.resp.status = 200

\* C3: every slot get_availability returns has an Asia/Kolkata hour in
\* [9, 18) and its half hour [slot, slot + 30min) overlaps no busy interval
C3_SlotsInBusinessHoursAndFree ==
  AvailOk =>
    \A i \in 1..Len(fout.resp.available_slots) :
      LET slot == fout.resp.available_slots[i]
          hour == ((slot + 22) % 96) \div 4
      IN /\ hour >= 9 /\ hour < 18
         /\ \A k \in 1..Len(fin.svc.busy) :
              ~ (fin.svc.busy[k].start < slot + 2 /\ fin.svc.busy[k].end > slot)

\* a slot was returned while another half hour of the range, inside
\* business hours, was dropped because a busy interval overlaps it
C3_Witness ==
  /\ AvailOk
  /\ Len(fout.resp.available_slots) > 0
  /\ Len(fin.svc.busy) > 0
  /\ \E n \in 0..MaxRange :
       LET t == fin.req.start + n * SlotLen
       IN /\ t < fin.req.end
          /\ InBusinessHours(t)
          /\ \E k \in 1..Len(fin.svc.busy) : Overlaps(fin.svc.busy[k], t, t + SlotLen)

(***************************************************************************)
(* SpecRange: get_availability and book_appointment applied to requests    *)
(* whose start is before, at and after their end                           *)
(***************************************************************************)
\* end - start lies in -MaxSpan..MaxSpan quarter hours
MaxSpan == 4

\* start and end parse as datetimes, or one of them does not
RangeRequests ==
  {[wellFormed |-> TRUE, start |-> s, end |-> s + l] :
      s \in AvailStarts, l \in (0 - MaxSpan)..MaxSpan}
    \cup {[wellFormed |-> FALSE, start |-> 0, end |-> 0]}

\* the calendar answers (for the list call with no or one event) or fails
RangeInit ==
  /\ ChatIdle
  /\ fout = NoCall
  /\ \E req \in RangeRequests, ok \in BOOLEAN :
       \/ \E busy \in {<<>>, <<[start |-> req.start, end |-> req.start + SlotLen, allDay |-> FALSE]>>} :
            fin = [fn |-> "get_availability", req |-> req, svc |-> [ok |-> ok, busy |-> busy]]
       \/ fin = [fn |-> "book_appointment", req |-> req, svc |-> [ok |-> ok]]

BookCall ==
  /\ ~ fout.done
  /\ fin.fn = "book_appointment"
  /\ fout' = [done |-> TRUE, resp |-> book_appointment(fin.req, fin.svc)]
  /\ UNCHANGED <<fin, ChatVars>>

RangeNext == AvailCall \/ BookCall

SpecRange == RangeInit /\ [][RangeNext]_vars

\* the request parses and its start is not strictly before its end
BadRange == fout.done /\ fin.req.wellFormed /\ fin.req.start >= fin.req.end

\* C21: a request whose start_time is not strictly before its end_time is
\* answered with status 400 "start_time must be before end_time" by /book,
\* with no calendar insert, and by /availability, with no calendar list
C21_BadRangeRejected ==
  BadRange =>
    /\ fout.resp.status = 400
    /\ fout.resp.detail = "start_time must be before end_time"
    /\ fin.fn = "book_appointment" => ~ fout.resp.inserted
    /\ fin.fn = "get_availability" => ~ fout.resp.listed

(***************************************************************************)
(* SpecSelect: confirm_booking and cancel_booking applied to one user      *)
(* message, to bounded candidate lists and to every answer of the language *)
(* model, the network and the calendar                                     *)
(***************************************************************************)
\* the longest candidate slot list handed to confirm_booking
MaxCandidates == 12

\* the largest index a selection message names
MaxIndex == 12

\* the candidate lists check_availability_node stores: the first n free
\* half hours from 2025-06-05 on
CandidateSlots(n) == Take(GenSlots(4 * QuartersPerDay, 6 * QuartersPerDay, <<>>).slots, n)

SelectTexts ==
  { <<"y","e","s"," ","p","l","e","a","s","e">>, <<"C","a","n","c","e","l"," ","m","y"," ","b","o","o","k","i","n","g">>, <<"s","e","l","e","c","t"," ","o","n","e">>, <<"t","h","e"," ","f","i","r","s","t"," ","o","n","e">>,
    <<"b","o","o","k"," ","a","t"," ","2","p","m">>, <<"c","a","n","c","e","l"," ","2"," ","a","n","d"," ","1","0">> }

\* the bare number k and "slot k"
IndexTexts == {Str(k) : k \in 1..MaxIndex} \cup {<<"s","l","o","t"," ">> \o Str(k) : k \in 1..MaxIndex}

SelectPrompts == SelectTexts \cup IndexTexts

SelectInit ==
  /\ ChatIdle
  /\ fout = NoCall
  /\ \E prompt \in SelectPrompts :
       \/ \E n \in {0, 1, 3, MaxCandidates}, llm \in ReplyOutcomes, net \in NetOutcomes,
             svc \in WriteSvc :
            \E fuzzy \in FuzzyOutcomes(Lower(Strip(prompt))) :
               fin = [fn |-> "confirm_booking",
                      state |-> [FreshState(<<Greeting, UserTurn(prompt)>>)
                                   EXCEPT !.suggested_slots = CandidateSlots(n)],
                      llm |-> llm, fuzzy |-> fuzzy, net |-> net, svc |-> svc]
       \/ \E net1 \in NetOutcomes, svc1 \in UpcomingSvc, net2 \in NetOutcomes, svc2 \in WriteSvc :
            fin = [fn |-> "cancel",
                   state |-> FreshState(<<Greeting, UserTurn(prompt)>>),
                   net1 |-> net1, svc1 |-> svc1, net2 |-> net2, svc2 |-> svc2]

RunConfirm ==
  /\ ~ fout.done
  /\ fin.fn = "confirm_booking"
  /\ fout' = [done |-> TRUE,
              r |-> confirm_booking(fin.state, fin.llm, fin.fuzzy, fin.net, fin.svc)]
  /\ UNCHANGED <<fin, ChatVars>>

RunCancel ==
  /\ ~ fout.done
  /\ fin.fn = "cancel"
  /\ fout' = [done |-> TRUE,
              r |-> cancel_booking(fin.state, fin.net1, fin.svc1, fin.net2, fin.svc2)]
  /\ UNCHANGED <<fin, ChatVars>>

SelectNext == RunConfirm \/ RunCancel

SpecSelect == SelectInit /\ [][SelectNext]_vars

\* the user message of a SpecSelect run, as typed and as the handlers read it
SelPrompt == Last(fin.state.messages).content

SelMessage == Lower(Strip(SelPrompt))

ConfirmDone == fin.fn = "confirm_booking" /\ fout.done

\* the upcoming events were fetched, and cancel_booking returned or raised
CancelDone == fin.fn = "cancel" /\ fout.done /\ fin.net1 = "ok" /\ fin.svc1.ok

CallsOf(op) == {k \in 1..Len(fout.r.calls) : fout.r.calls[k].op = op}

\* the message has no digit and no "<h> am|pm" time of day
NoNumberNoTime(message) ==
  /\ \A k \in 1..Len(message) : message[k] \notin Digits
  /\ Len(TimeMatches(message)) = 0

C15_NoUpcomingBookings ==
  (CancelDone /\ Len(fin.svc1.events) = 0) =>
    /\ fout.r.raised = "none"
    /\ CallsOf("cancel") = {}
    /\ Len(fout.r.state.messages) = Len(fin.state.messages) + 1
    /\ SubSeq(fout.r.state.messages, 1, Len(fin.state.messages)) = fin.state.messages
    /\ HasContent(Last(fout.r.state.messages))
    /\ Last(fout.r.state.messages).role = "assistant"
    /\ Last(fout.r.state.messages).content = <<"N","o"," ","u","p","c","o","m","i","n","g"," ","b","o","o","k","i","n","g","s"," ","f","o","u","n","d",".">>

\* the fetch returned no event for a message that asks to select an event
C15_Witness ==
  /\ CancelDone
  /\ Len(fin.svc1.events) = 0
  /\ Contains(SelMessage, <<"s","e","l","e","c","t">>)
  /\ Last(fout.r.state.messages).content = <<"N","o"," ","u","p","c","o","m","i","n","g"," ","b","o","o","k","i","n","g","s"," ","f","o","u","n","d",".">>

\* C18: confirm_booking posts at most one booking; it posts it only after a
\* candidate slot was recorded as confirmed_slot, the model was called and
\* its confirmation reply was appended after the user's message; the booked
\* interval is [confirmed_slot, confirmed_slot + 30min); when the model call
\* fails no booking is posted
C18_InsertAfterConfirmation ==
  ConfirmDone =>
    /\ Cardinality(CallsOf("book")) <= 1
    /\ ~ fin.llm.ok => CallsOf("book") = {}
    /\ \A c \in CallsOf("book") :
          /\ Len(fout.r.state.confirmed_slot) = 1
          /\ InSeq(fout.r.state.confirmed_slot[1], fin.state.suggested_slots)
          /\ fout.r.calls[c].a = fout.r.state.confirmed_slot[1]
          /\ fout.r.calls[c].b = fout.r.state.confirmed_slot[1] + 2
          /\ \E k \in 1..(c - 1) : fout.r.calls[k].op = "llm"
          /\ Len(fout.r.state.messages) > Len(fin.state.messages)
          /\ HasContent(fout.r.state.messages[Len(fin.state.messages) + 1])
          /\ fout.r.state.messages[Len(fin.state.messages) + 1].content = Strip(fin.llm.text)

\* a booking was posted for a slot the message selects by its index, which
\* is not the first slot
C18_Witness ==
  /\ ConfirmDone
  /\ CallsOf("book") # {}
  /\ Len(fin.state.suggested_slots) > 1
  /\ fout.r.state.confirmed_slot # <<fin.state.suggested_slots[1]>>
  /\ fout.r.raised = "none"

\* the indexes i, 1 <= i <= number of fetched events, the message mentions
MentionedIndexes == {i \in 1..Len(fin.svc1.events) : Contains(SelMessage, Str(i))}

QueryNows == NowSet \cup {5 * QuartersPerDay + 18}

QueryTexts ==
  { <<"S","h","o","w"," ","m","e"," ","s","l","o","t","s"," ","t","o","m","o","r","r","o","w"," ","a","f","t","e","r","n","o","o","n">>,
    <<"B","o","o","k"," ","a"," ","s","l","o","t"," ","t","o","m","o","r","r","o","w"," ","a","t"," ","2","p","m">>,
    <<"a","n","y"," ","f","r","e","e"," ","s","l","o","t","s","?">>,
    <<"I","s"," ","t","h","e"," ","w","h","o","l","e"," ","d","a","y"," ","f","r","e","e"," ","o","n"," ","f","r","i","d","a","y","?">>,
    <<"B","o","o","k"," ","J","u","n","e"," ","2","6",","," ","2","0","2","5">>,
    <<"B","o","o","k"," ","J","u","n","e"," ","3","1",","," ","2","0","2","5">> }

\* one event 13:00-14:00 Asia/Kolkata on the given day
BusyBlock(day) ==
  [start |-> Midnight(day) + 13 * QuartersPerHour - IstOffset,
   end |-> Midnight(day) + 14 * QuartersPerHour - IstOffset, allDay |-> FALSE]

\* the calendar is free, holds that event on the day after nowUtc, holds an
\* all-day event, or the calendar call fails
QuerySvc(nowUtc) ==
  {[ok |-> TRUE, busy |-> b] :
      b \in {<<>>, <<BusyBlock(LocalDay(nowUtc, IstOffset) + 1)>>,
             <<[start |-> 0, end |-> 0, allDay |-> TRUE]>>}}
    \cup {[ok |-> FALSE, busy |-> <<>>]}

QueryInputs ==
  {[fn |-> "check_availability", state |-> FreshState(<<Greeting, UserTurn(text)>>),
    now |-> nowUtc, net |-> net, svc |-> svc] :
      text \in QueryTexts, nowUtc \in QueryNows, net \in NetOutcomes,
      svc \in UNION {QuerySvc(t) : t \in QueryNows}}

RunCheckAvailability ==
  /\ ~ fout.done
  /\ fin.fn = "check_availability"
  /\ fout' = [done |-> TRUE,
              r |-> check_availability_node(fin.state, fin.now, fin.net, fin.svc)]
  /\ UNCHANGED <<fin, ChatVars>>

QueryDone == fin.fn = "check_availability" /\ fout.done

\* the message is "Show me slots tomorrow afternoon", the backend answers
\* and the calendar holds the 13:00-14:00 block of tomorrow
AfternoonCase ==
  /\ QueryDone
  /\ SelPrompt = <<"S","h","o","w"," ","m","e"," ","s","l","o","t","s"," ","t","o","m","o","r","r","o","w"," ","a","f","t","e","r","n","o","o","n">>
  /\ fin.net = "ok"
  /\ fin.svc.ok
  /\ fin.svc.busy = <<BusyBlock(LocalDay(fin.now, IstOffset) + 1)>>

\* hh:00 Asia/Kolkata of the day after fin.now
TomorrowLocal(hh) == (((fin.now + 22) \div 96) + 1) * 96 + hh * 4 - 22

\* C11: for "Show me slots tomorrow afternoon" with a busy block 13:00-14:00
\* Asia/Kolkata tomorrow, the queried range is 12:00-18:00 Asia/Kolkata of
\* tomorrow and the candidate slots are exactly the half hours 14:00, 14:30,
\* ..., 17:30 Asia/Kolkata
C11_TomorrowAfternoonLocal ==
  AfternoonCase =>
    /\ fout.r.raised = "none"
    /\ \E c \in CallsOf("availability") :
          /\ fout.r.calls[c].a = TomorrowLocal(12)
          /\ fout.r.calls[c].b = TomorrowLocal(18)
    /\ fout.r.state.suggested_slots = [k \in 1..8 |-> TomorrowLocal(14) + (k - 1) * 2]

\* the longest candidate list handed to suggest_slots covers MaxDays days
MaxDays == 3

\* the free half hours of n days from 2025-06-05 on, as get_availability
\* returns them
DaySlots(n) == GenSlots(4 * QuartersPerDay, (4 + n) * QuartersPerDay, <<>>).slots

\* slots at 10:00, 14:00 and 16:00 Asia/Kolkata of 2025-06-05
ExampleSlots ==
  << 4 * QuartersPerDay + 10 * QuartersPerHour - IstOffset,
     4 * QuartersPerDay + 14 * QuartersPerHour - IstOffset,
     4 * QuartersPerDay + 16 * QuartersPerHour - IstOffset >>

SuggestLists == {<<>>, ExampleSlots, DaySlots(1), DaySlots(MaxDays)}

\* the hours a message names: 0..MaxHour, each as "am" and as "pm"
MaxHour == 13

MeridianText(meridian) == IF meridian = "am" THEN <<"a","m">> ELSE <<"p","m">>

\* messages that mention hour h; mentions lists what the text names
MentionInputs(h, meridian) ==
  { [text |-> <<"b","o","o","k"," ","a","t"," ">> \o Str(h) \o MeridianText(meridian),
     mentions |-> <<[hour |-> h, meridian |-> meridian]>>],
    [text |-> Str(h) \o <<":","3","0"," ">> \o MeridianText(meridian) \o <<" ","p","l","e","a","s","e">>,
     mentions |-> <<[hour |-> h, meridian |-> meridian]>>],
    [text |-> <<"a","n","y","t","h","i","n","g"," ","a","t"," ">> \o Str(h) \o MeridianText(meridian) \o <<"?">>,
     mentions |-> <<[hour |-> h, meridian |-> meridian]>>],
    [text |-> <<"B","o","o","k"," ","a","t"," ">> \o Str(h) \o MeridianText(meridian) \o <<" ","o","r"," ","4"," ","P","M">>,
     mentions |-> <<[hour |-> h, meridian |-> meridian], [hour |-> 4, meridian |-> "pm"]>>] }

\* messages without a time of day
PlainInputs ==
  {[text |-> t, mentions |-> <<>>] :
      t \in { <<"H","i">>, <<"g","o","o","d"," ","m","o","r","n","i","n","g">>, <<"a","n","y"," ","f","r","e","e"," ","s","l","o","t","s","?">>, <<"a","n","y","t","h","i","n","g"," ","f","r","e","e","?">>,
              <<"w","h","o","l","e"," ","d","a","y"," ","p","l","e","a","s","e">>, <<"a","t"," ","1","4",":","0","0">> }}

SuggestTexts ==
  PlainInputs \cup UNION {MentionInputs(h, meridian) : h \in 0..MaxHour, meridian \in {"am", "pm"}}

SuggestInputs ==
  {[fn |-> "suggest_slots",
    state |-> [FreshState(<<Greeting, UserTurn(m.text)>>) EXCEPT !.suggested_slots = slots],
    now |-> nowUtc, llm |-> llm, mentions |-> m.mentions] :
      m \in SuggestTexts, slots \in SuggestLists, nowUtc \in NowSet, llm \in ReplyOutcomes}

\* confirm_booking with no candidate slot
ConfirmEmptyInputs ==
  {[fn |-> "confirm_booking", state |-> FreshState(<<Greeting, UserTurn(text)>>),
    llm |-> llm, fuzzy |-> fuzzy, net |-> net, svc |-> svc] :
      text \in SelectTexts, llm \in ReplyOutcomes,
      fuzzy \in {FuzzyRaise, [ok |-> TRUE, hour |-> 14, minute |-> 0]},
      net \in NetOutcomes, svc \in WriteSvc}

SuggestInit ==
  /\ ChatIdle
  /\ fout = NoCall
  /\ \/ fin \in QueryInputs
     \/ fin \in SuggestInputs
     \/ fin \in ConfirmEmptyInputs

RunSuggest ==
  /\ ~ fout.done
  /\ fin.fn = "suggest_slots"
  /\ fout' = [done |-> TRUE, r |-> suggest_slots(fin.state, fin.now, fin.llm)]
  /\ UNCHANGED <<fin, ChatVars>>

SuggestNext == RunCheckAvailability \/ RunSuggest \/ RunConfirm

SpecSuggest == SuggestInit /\ [][SuggestNext]_vars

SuggestDone == fin.fn = "suggest_slots" /\ fout.done

\* the candidate slots whose Asia/Kolkata hour is one of the hours the
\* message names (pm adds 12 except to 12, 12 am is 0), in their order
PrioritySubset ==
  SelectSeq(fin.state.suggested_slots,
    LAMBDA slot :
      \E k \in 1..Len(fin.mentions) :
        ((slot + 22) % 96) \div 4 =
          (IF fin.mentions[k].meridian = "pm" /\ fin.mentions[k].hour # 12
             THEN fin.mentions[k].hour + 12
           ELSE IF fin.mentions[k].meridian = "am" /\ fin.mentions[k].hour = 12 THEN 0
           ELSE fin.mentions[k].hour))

\* the message holds a word the greeting branch of suggest_slots answers
GreetWordIn(message) ==
  \/ Contains(message, <<"h","i">>)
  \/ Contains(message, <<"h","e","l","l","o">>)
  \/ Contains(message, <<"h","e","y">>)
  \/ Contains(message, <<"g","o","o","d"," ","m","o","r","n","i","n","g">>)

C14_EmptyListNothingAvailable ==
  /\ (SuggestDone /\ Len(fin.state.suggested_slots) = 0
        /\ SelMessage \notin {<<"h","i">>, <<"h","e","l","l","o">>, <<"h","e","y">>, <<"g","o","o","d"," ","m","o","r","n","i","n","g">>}) =>
        /\ CallsOf("llm") = {}
        /\ fout.r.raised = "none"
        /\ HasContent(Last(fout.r.state.messages))
        /\ Contains(Last(fout.r.state.messages).content, <<"N","o"," ","a","v","a","i","l","a","b","l","e"," ","s","l","o","t","s">>)
  /\ (ConfirmDone /\ Len(fin.state.suggested_slots) = 0) =>
        /\ CallsOf("book") = {}
        /\ fout.r.raised = "none"
        /\ fout.r.state.confirmed_slot = NoSlot
        /\ HasContent(Last(fout.r.state.messages))
        /\ Contains(Last(fout.r.state.messages).content, <<"N","o"," ","a","v","a","i","l","a","b","l","e"," ","s","l","o","t","s">>)

(***************************************************************************)
(* SpecParse: parse_user_date applied to messages that name weekdays,      *)
(* "today"/"tomorrow" and month-day-year dates, on every day of a week     *)
(***************************************************************************)
\* the current instant is 02:30 or 22:30 UTC of day 0..MaxNowDay
MaxNowDay == 6

ParseNows == {d * QuartersPerDay + q : d \in 0..MaxNowDay, q \in {10, 90}}

NoLiteral == [present |-> FALSE, valid |-> FALSE, year |-> 0, month |-> 0, day |-> 0, index |-> 0]

\* month-day-year dates a message names; index is the number of days from
\* 2025-06-01 to the date, valid is whether the date exists
LiteralDates ==
  { [present |-> TRUE, valid |-> TRUE, year |-> 2025, month |-> 6, day |-> 5, index |-> 4],
    [present |-> TRUE, valid |-> TRUE, year |-> 2025, month |-> 6, day |-> 26, index |-> 25],
    [present |-> TRUE, valid |-> TRUE, year |-> 2025, month |-> 12, day |-> 31, index |-> 213],
    [present |-> TRUE, valid |-> TRUE, year |-> 2026, month |-> 1, day |-> 1, index |-> 214],
    [present |-> TRUE, valid |-> TRUE, year |-> 2028, month |-> 2, day |-> 29, index |-> 1003],
    [present |-> TRUE, valid |-> FALSE, year |-> 2025, month |-> 6, day |-> 31, index |-> 0],
    [present |-> TRUE, valid |-> FALSE, year |-> 2026, month |-> 2, day |-> 29, index |-> 0] }

LiteralText(lit) == MonthDisplay[lit.month] \o <<" ">> \o Str(lit.day) \o <<","," ">> \o Str(lit.year)

\* weekday: the weekday the text names (Monday = 0), -1 for none; narrow:
\* the text holds "afternoon" or an "any time" phrase
WeekdayInputs(w) ==
  { [text |-> <<"f","r","e","e"," ","o","n"," ">> \o DayKeys[w + 3] \o <<"?">>,
     weekday |-> w, literal |-> NoLiteral, narrow |-> FALSE],
    [text |-> <<"N","e","x","t"," ">> \o DayKeys[w + 3] \o <<" ","a","f","t","e","r","n","o","o","n">>,
     weekday |-> w, literal |-> NoLiteral, narrow |-> TRUE],
    [text |-> <<"a","n","y"," ","t","i","m","e"," ">> \o DayKeys[w + 3],
     weekday |-> w, literal |-> NoLiteral, narrow |-> TRUE],
    [text |-> <<"t","o","m","o","r","r","o","w"," ","o","r"," ">> \o DayKeys[w + 3],
     weekday |-> w, literal |-> NoLiteral, narrow |-> FALSE] }

LiteralInputs(lit) ==
  { [text |-> <<"B","o","o","k"," ">> \o LiteralText(lit),
     weekday |-> -1, literal |-> lit, narrow |-> FALSE],
    [text |-> <<"t","o","m","o","r","r","o","w",","," ">> \o LiteralText(lit),
     weekday |-> -1, literal |-> lit, narrow |-> FALSE],
    [text |-> <<"t","o","d","a","y"," ","o","r"," ","f","r","i","d","a","y"," ">> \o LiteralText(lit) \o <<" ","a","f","t","e","r","n","o","o","n">>,
     weekday |-> 4, literal |-> lit, narrow |-> TRUE],
    [text |-> <<"a","l","l"," ","d","a","y"," ">> \o Lower(LiteralText(lit)),
     weekday |-> -1, literal |-> lit, narrow |-> TRUE] }

PlainDateInputs ==
  { [text |-> <<"a","n","y"," ","f","r","e","e"," ","s","l","o","t","s","?">>, weekday |-> -1, literal |-> NoLiteral, narrow |-> FALSE],
    [text |-> <<"w","h","o","l","e"," ","d","a","y">>, weekday |-> -1, literal |-> NoLiteral, narrow |-> TRUE],
    [text |-> <<"t","o","d","a","y">>, weekday |-> -1, literal |-> NoLiteral, narrow |-> FALSE],
    [text |-> <<"T","o","m","o","r","r","o","w"," ","a","f","t","e","r","n","o","o","n">>, weekday |-> -1, literal |-> NoLiteral, narrow |-> TRUE] }

ParseTexts ==
  PlainDateInputs \cup UNION {WeekdayInputs(w) : w \in 0..6}
    \cup UNION {LiteralInputs(lit) : lit \in LiteralDates}

ParseInit ==
  /\ ChatIdle
  /\ fout = NoCall
  /\ \E m \in ParseTexts, nowUtc \in ParseNows :
       fin = [fn |-> "parse_user_date", message |-> m.text, now |-> nowUtc,
              weekday |-> m.weekday, literal |-> m.literal, narrow |-> m.narrow]

RunParse ==
  /\ ~ fout.done
  /\ fin.fn = "parse_user_date"
  /\ fout' = [done |-> TRUE, r |-> parse_user_date(fin.message, fin.now)]
  /\ UNCHANGED <<fin, ChatVars>>

ParseNext == RunParse

SpecParse == ParseInit /\ [][ParseNext]_vars

ParseDone == fin.fn = "parse_user_date" /\ fout.done

\* C12: for a message that names a weekday, parse_user_date returns a start
\* instant whose weekday is the named one and whose date is not before
\* today's date
C12_WeekdayOnOrAfterToday ==
  (ParseDone /\ fin.weekday >= 0) =>
    /\ ~ fout.r.raised
    /\ fout.r.found
    /\ ((fout.r.start \div 96) + 6) % 7 = fin.weekday
    /\ fout.r.start \div 96 >= fin.now \div 96

====
